---- MODULE Spec2Model ----
(***************************************************************************)
(* A model of lib/model/task.js: the Task entity (a watched URL), its      *)
(* state machine (active/stop/expire), its scheduler binding (sched), the  *)
(* read-only prober (test), the single-flight run pipeline (run) and the   *)
(* patch pipeline (_patch).                                                *)
(*                                                                         *)
(* JavaScript values are modelled as records tagged with their type, so    *)
(* that `undefined`, numbers and strings stay distinct and the code's      *)
(* truthiness tests (`!this.state`, `if (this.cron)`) are computed as the  *)
(* language computes them.  Every callback of the event loop (a request    *)
(* completion, a timer firing, an external call) is one atomic action.     *)
(***************************************************************************)
EXTENDS Integers, Sequences, FiniteSets, TLC

\* ------------------------------------------------------------------ bounds

\* the clock advances at most MaxTick seconds past StartTime
MaxTick == 1
\* at most MaxRuns run() invocations are started
MaxRuns == 2
\* at most MaxProbes test() requests are pending at once
MaxProbes == 1

\* ------------------------------------------------------- program constants

ACTIVE == 0
STOPPED == 1
EXPIRED == 2

\* task.js:51,54: numeric cron/expireAt below this are offsets from now
RelativeLimit == 1000000

\* _Now() at construction: an epoch second of a clock that is set
\* (any date after 1970-01-12 is above RelativeLimit)
StartTime == 1700 * RelativeLimit

\* --------------------------------------------------------- JavaScript values

Undef == [t |-> "undefined"]
Null == [t |-> "null"]
Num(n) == [t |-> "number", n |-> n]
Str(s) == [t |-> "string", s |-> s]
Bool(b) == [t |-> "boolean", n |-> IF b THEN 1 ELSE 0]
Arr(a) == [t |-> "array", a |-> a]

\* ToBoolean: undefined, null, 0, "" and false are falsy
Truthy(v) ==
  CASE v.t = "number" -> v.n # 0
    [] v.t = "string" -> v.s # ""
    [] v.t = "boolean" -> v.n = 1
    [] v.t = "array" -> TRUE
    [] OTHER -> FALSE

\* Array.isArray(v) && v.length
IsNonEmptyArray(v) == v.t = "array" /\ Len(v.a) > 0

\* the names _patch iterates over: those of this.patches when it is an array
PatchNames(s) == IF s.patches.t = "array" THEN s.patches.a ELSE <<>>

\* ------------------------------------------------------------------ helpers

\* the timer handle this._cronJob: absent, or a CronJob with its `running` flag
NoJob == [bound |-> FALSE, running |-> FALSE, once |-> FALSE]

\* crypto sha256 hex digest: modelled as an injective function of its input
Sha256Hex(s) == "sha256:" \o s

\* makeHash(headers, body): the digest of content-type (or '') followed by body (or '')
makeHash(headers, body) ==
  Sha256Hex((IF Truthy(headers.ct) THEN headers.ct.s ELSE "")
            \o (IF Truthy(body) THEN body.s ELSE ""))

\* a toJSON whose key list lacks 'hash'
toJSONWithoutHash(s) ==
  [name |-> s.name, state |-> s.state, url |-> s.url, callback |-> s.callback,
   timeout |-> s.timeout, hash |-> Undef,
   urlTemplate |-> s.urlTemplate, callbackTemplate |-> s.callbackTemplate,
   patches |-> s.patches,
   cron |-> s.cron, expireAt |-> s.expireAt, created |-> s.created,
   updated |-> s.updated,
   _running |-> s._running, _counts |-> s._counts, _last |-> s._last]

\* Task.prototype.toJSON: the sixteen listed keys, never the timer handle
toJSON(s) ==
  [name |-> s.name, state |-> s.state, url |-> s.url, callback |-> s.callback,
   timeout |-> s.timeout, hash |-> s.hash,
   urlTemplate |-> s.urlTemplate, callbackTemplate |-> s.callbackTemplate,
   patches |-> s.patches,
   cron |-> s.cron, expireAt |-> s.expireAt, created |-> s.created,
   updated |-> s.updated,
   _running |-> s._running, _counts |-> s._counts, _last |-> s._last]

\* what a 'change' listener that serializes the entity captures of the fields
\* that change after construction
Captured(s) ==
  LET o == toJSON(s)
  IN [state |-> o.state, hash |-> o.hash, updated |-> o.updated,
      _running |-> o._running, _counts |-> o._counts, _last |-> o._last]

\* the constructor throws on a missing name or url
ConstructorThrows(task) == ~Truthy(task.name) \/ ~Truthy(task.url)

\* the strings of digits the inputs hold, with the numbers they convert to
Decimals == {<<"5", 5>>}

\* `v < limit` as the language computes it: a string operand is converted to
\* a number, and the comparison is false when it converts to NaN
LessThan(v, limit) ==
  CASE v.t = "number" -> v.n < limit
    [] v.t = "string" -> \E d \in Decimals : d[1] = v.s /\ d[2] < limit
    [] OTHER -> FALSE

\* `v += n` for a number n: the sum for a number, the concatenation with n's
\* decimal form for a string
PlusAssign(v, n) ==
  IF v.t = "number" THEN Num(v.n + n) ELSE Str(v.s \o ToString(n))

\* a constructor that takes a cron equal to the limit for an offset too
TaskLimitInclusive(task, clock) ==
  LET created == IF ~Truthy(task.created) THEN Num(clock) ELSE task.created
  IN [name |-> task.name,
      state |-> IF ~Truthy(task.state) THEN Num(ACTIVE) ELSE task.state,
      url |-> task.url,
      callback |-> task.callback,
      timeout |-> task.timeout,
      hash |-> task.hash,
      urlTemplate |-> task.urlTemplate,
      callbackTemplate |-> task.callbackTemplate,
      patches |-> IF task.patches.t = "string"
                    THEN Arr(<<task.patches.s>>) ELSE task.patches,
      cron |-> IF task.cron.t = "number" /\ LessThan(task.cron, RelativeLimit + 1)
                 THEN PlusAssign(task.cron, clock) ELSE task.cron,
      expireAt |-> IF Truthy(task.expireAt) /\ LessThan(task.expireAt, RelativeLimit)
                     THEN PlusAssign(task.expireAt, clock) ELSE task.expireAt,
      created |-> created,
      updated |-> IF ~Truthy(task.updated) THEN created ELSE task.updated,
      _running |-> FALSE,
      _counts |-> [run |-> 0, err |-> 0, succ |-> 0],
      _last |-> [succ |-> Null, date |-> Null],
      _cronJob |-> NoJob]

\* function Task(task): _Merge, defaults, cron/expireAt normalisation, and the
\* transient fields reset whatever the argument carried
Task(task, clock) ==
  LET created == IF ~Truthy(task.created) THEN Num(clock) ELSE task.created
  IN [name |-> task.name,
      state |-> IF ~Truthy(task.state) THEN Num(ACTIVE) ELSE task.state,
      url |-> task.url,
      callback |-> task.callback,
      timeout |-> task.timeout,
      hash |-> task.hash,
      urlTemplate |-> task.urlTemplate,
      callbackTemplate |-> task.callbackTemplate,
      patches |-> IF task.patches.t = "string"
                    THEN Arr(<<task.patches.s>>) ELSE task.patches,
      cron |-> IF task.cron.t = "number" /\ LessThan(task.cron, RelativeLimit)
                 THEN PlusAssign(task.cron, clock) ELSE task.cron,
      expireAt |-> IF Truthy(task.expireAt) /\ LessThan(task.expireAt, RelativeLimit)
                     THEN PlusAssign(task.expireAt, clock) ELSE task.expireAt,
      created |-> created,
      updated |-> IF ~Truthy(task.updated) THEN created ELSE task.updated,
      _running |-> FALSE,
      _counts |-> [run |-> 0, err |-> 0, succ |-> 0],
      _last |-> [succ |-> Null, date |-> Null],
      _cronJob |-> NoJob]

\* ------------------------------------------------------------------- state

VARIABLES
  self,    \* the Task entity: its sixteen serialized fields and _cronJob
  net,     \* requests of the run pipeline in flight (GET url, POST callback)
  probes,  \* requests of test() in flight
  now,     \* the clock _Now() reads, in epoch seconds
  undelivered,  \* history: the hash of the content whose callback POST failed,
                \* when that is how the last finalized run ended ("" otherwise)
  obs      \* what the last step did: the operation, run()'s return value, the
           \* 'change' events emitted (each as the toJSON a listener would take),
           \* the patches attempted, the requests issued, test()'s cb arguments,
           \* and the trace of the step: in program order, the fields of the
           \* entity it wrote, the 'change' events it emitted, "parse" /
           \* "throw" for JSON.parse and "patch" for each patch attempted

vars == <<self, net, probes, now, undelivered, obs>>

\* a configuration record, as the caller of the constructor writes it
Config(cb, pt, cr) ==
  [name |-> Str("t1"), state |-> Undef, url |-> Str("http://example"),
   callback |-> cb, timeout |-> Undef, hash |-> Undef,
   urlTemplate |-> Undef, callbackTemplate |-> Undef,
   patches |-> pt, cron |-> cr, expireAt |-> Undef,
   created |-> Undef, updated |-> Undef,
   _running |-> FALSE, _counts |-> [run |-> 0, err |-> 0, succ |-> 0],
   _last |-> [succ |-> Null, date |-> Null]]

\* the configurations the entity is constructed from: a one-shot timer (cron:
\* 1 second from now) without callback or patches, a recurring timer with a
\* callback and patches, and no timer with patches only
Inputs ==
  {Config(Undef, Undef, Num(1)),
   Config(Str("http://cb"), Arr(<<"p", "q">>), Str("* * * * * *")),
   Config(Undef, Arr(<<"p", "q">>), Undef)}

\* what the remote end can answer: a transport error, a non-200, or a 200
\* with a content-type header (possibly absent) and a body: "{}" is JSON and
\* "x{}" is not
Contents ==
  {[ct |-> Str("a"), body |-> Str("{}")],
   [ct |-> Undef, body |-> Str("x{}")]}
Responses ==
  {[err |-> TRUE, status |-> 0, ct |-> Undef, body |-> Undef]}
  \cup {[err |-> FALSE, status |-> 500, ct |-> Undef, body |-> Str("")]}
  \cup {[err |-> FALSE, status |-> 200, ct |-> c.ct, body |-> c.body] :
          c \in Contents}

\* what the callback endpoint can answer; only err and the status are read
CallbackResponses ==
  {[err |-> TRUE, status |-> 0, ct |-> Undef, body |-> Undef],
   [err |-> FALSE, status |-> 500, ct |-> Undef, body |-> Str("")],
   [err |-> FALSE, status |-> 200, ct |-> Undef, body |-> Str("ok")]}

\* JSON.parse(body) returns (rather than throws) for these bodies
JsonParses(body) == body = Str("{}")

Quiet == [op |-> "init", ret |-> "none", emitted |-> <<>>, patched |-> <<>>,
          sent |-> <<>>, probe |-> <<>>, cb |-> "none", trace |-> <<>>]

Init ==
  /\ now = StartTime
  /\ \E task \in Inputs :
       /\ ~ConstructorThrows(task)
       /\ self = Task(task, now)
  /\ net = <<>>
  /\ probes = <<>>
  /\ undelivered = ""
  /\ obs = Quiet

Remove(seq, i) == [j \in 1..(Len(seq) - 1) |-> IF j < i THEN seq[j] ELSE seq[j + 1]]

\* ------------------------------------------------------------ state machine

\* a _transit that does not emit
TransitSilent(s, newState, clock) ==
  LET s1 == [s EXCEPT !.state = Num(newState), !.updated = Num(clock)]
  IN [self |-> s1, emitted |-> <<>>, trace |-> <<"state", "updated">>]

\* Task.prototype._transit: state, updated = _Now(), emit('change')
Transit(s, newState, clock) ==
  LET s1 == [s EXCEPT !.state = Num(newState), !.updated = Num(clock)]
  IN [self |-> s1, emitted |-> <<Captured(s1)>>,
      trace |-> <<"state", "updated", "change">>]

\* Task.prototype.active
ActiveCall(s, clock) ==
  IF s.state # Num(ACTIVE)
    THEN LET r == Transit(s, ACTIVE, clock)
         IN [self |-> IF r.self._cronJob.bound /\ ~r.self._cronJob.running
                        THEN [r.self EXCEPT !._cronJob.running = TRUE]
                        ELSE r.self,
             emitted |-> r.emitted, trace |-> r.trace]
    ELSE [self |-> s, emitted |-> <<>>, trace |-> <<>>]

\* a stop() without the test of the current state
StopAlways(s, clock) ==
  LET r == Transit(s, STOPPED, clock)
  IN [self |-> IF r.self._cronJob.bound /\ r.self._cronJob.running
                 THEN [r.self EXCEPT !._cronJob.running = FALSE]
                 ELSE r.self,
      emitted |-> r.emitted, trace |-> r.trace]

\* Task.prototype.stop
StopCall(s, clock) ==
  IF s.state # Num(STOPPED)
    THEN LET r == Transit(s, STOPPED, clock)
         IN [self |-> IF r.self._cronJob.bound /\ r.self._cronJob.running
                        THEN [r.self EXCEPT !._cronJob.running = FALSE]
                        ELSE r.self,
             emitted |-> r.emitted, trace |-> r.trace]
    ELSE [self |-> s, emitted |-> <<>>, trace |-> <<>>]

\* Task.prototype.expire
ExpireCall(s, clock) ==
  IF s.state # Num(EXPIRED)
    THEN LET r == Transit(s, EXPIRED, clock)
         IN [self |-> IF r.self._cronJob.bound /\ r.self._cronJob.running
                        THEN [r.self EXCEPT !._cronJob.running = FALSE]
                        ELSE r.self,
             emitted |-> r.emitted, trace |-> r.trace]
    ELSE [self |-> s, emitted |-> <<>>, trace |-> <<>>]

\* a sched() that starts the timer whatever the state
SchedStartsAlways(s) ==
  IF Truthy(s.cron)
    THEN [s EXCEPT !._cronJob = [bound |-> TRUE,
                                 running |-> TRUE,
                                 once |-> (s.cron.t = "number")]]
    ELSE [s EXCEPT !._cronJob = NoJob]

\* Task.prototype.sched: drop the old timer; with a cron, bind a new one and
\* start it only when ACTIVE
SchedCall(s) ==
  IF Truthy(s.cron)
    THEN [s EXCEPT !._cronJob = [bound |-> TRUE,
                                 running |-> (s.state = Num(ACTIVE)),
                                 once |-> (s.cron.t = "number")]]
    ELSE [s EXCEPT !._cronJob = NoJob]

Active ==
  /\ LET r == ActiveCall(self, now)
     IN /\ self' = r.self
        /\ obs' = [Quiet EXCEPT !.op = IF self.state # Num(ACTIVE)
                                         THEN "active" ELSE "active.noop",
                                !.emitted = r.emitted, !.trace = r.trace]
  /\ UNCHANGED <<net, probes, now, undelivered>>

Stop ==
  /\ LET r == StopCall(self, now)
     IN /\ self' = r.self
        /\ obs' = [Quiet EXCEPT !.op = IF self.state # Num(STOPPED)
                                         THEN "stop" ELSE "stop.noop",
                                !.emitted = r.emitted, !.trace = r.trace]
  /\ UNCHANGED <<net, probes, now, undelivered>>

Expire ==
  /\ LET r == ExpireCall(self, now)
     IN /\ self' = r.self
        /\ obs' = [Quiet EXCEPT !.op = IF self.state # Num(EXPIRED)
                                         THEN "expire" ELSE "expire.noop",
                                !.emitted = r.emitted, !.trace = r.trace]
  /\ UNCHANGED <<net, probes, now, undelivered>>

Sched ==
  /\ self' = SchedCall(self)
  /\ obs' = [Quiet EXCEPT !.op = "sched"]
  /\ UNCHANGED <<net, probes, now, undelivered>>

\* the clock advances
Tick ==
  /\ now < StartTime + MaxTick
  /\ now' = now + 1
  /\ obs' = [Quiet EXCEPT !.op = "tick"]
  /\ UNCHANGED <<self, net, probes, undelivered>>

\* ------------------------------------------------------------------- prober

\* the request options both test() and run() build: url, and timeout*1000 when set
Rsrc(s) ==
  [url |-> s.url,
   timeout |-> IF Truthy(s.timeout) THEN Num(s.timeout.n * 1000) ELSE Undef]

\* res.headers as the code reads it: content-type and date
Headers(resp) == [ct |-> resp.ct, date |-> Str("date")]

\* a comparison with the digest of the body alone
TestModifiedBodyOnly(s, resp) ==
  s.hash # Str(Sha256Hex(IF Truthy(resp.body) THEN resp.body.s ELSE ""))

\* test()'s `self.hash !== makeHash(res.headers, body)`
TestModified(s, resp) == s.hash # Str(makeHash(Headers(resp), resp.body))

\* the arguments test() calls cb with: cb(err || res.statusCode), or
\* cb(err, res.headers, body, modified)
ProbeArgs(s, resp) ==
  IF resp.err \/ resp.status # 200
    THEN [err |-> IF resp.err THEN "error" ELSE "status",
          headers |-> Undef, body |-> Undef, modified |-> FALSE]
    ELSE [err |-> "null", headers |-> Headers(resp), body |-> resp.body,
          modified |-> TestModified(s, resp)]

\* a completion that records the hash it computed
TestDoneStoresHash(s, resp) ==
  [self |-> IF resp.err \/ resp.status # 200
              THEN s
              ELSE [s EXCEPT !.hash = Str(makeHash(Headers(resp), resp.body))],
   probe |-> <<ProbeArgs(s, resp)>>]

\* the completion of test()'s request, for a test(cb) given a cb: the entity as
\* the handler leaves it, and the arguments cb is called with
TestDone(s, resp) ==
  [self |-> s,
   probe |-> <<ProbeArgs(s, resp)>>]

\* Task.prototype.test: one GET, nothing else
Test ==
  /\ Len(probes) < MaxProbes
  /\ probes' = Append(probes, [method |-> "GET", rsrc |-> Rsrc(self)])
  /\ obs' = [Quiet EXCEPT !.op = "test", !.sent = <<"GET">>]
  /\ UNCHANGED <<self, net, now, undelivered>>

ProbeDone ==
  \E i \in 1..Len(probes), resp \in Responses :
    LET r == TestDone(self, resp)
    IN /\ probes' = Remove(probes, i)
       /\ self' = r.self
       /\ obs' = [Quiet EXCEPT !.op = "test.done", !.probe = r.probe]
       /\ UNCHANGED <<net, now, undelivered>>

\* ------------------------------------------------------------- run pipeline

\* a run() that forgets the single-flight test
BusyNever(s) == FALSE

\* run()'s single-flight test: `!this._running` fails
Busy(s) == s._running

\* a comparison that never finds the stored hash
UnchangedNever(s, hash) == FALSE

\* run()'s `self.hash === hash`
Unchanged(s, hash) == s.hash = Str(hash)

\* an upd that counts the run but not its outcome
UpdRunOnly(s, succ, clock) ==
  [s EXCEPT !._running = FALSE,
            !._last = [succ |-> Bool(succ), date |-> Num(clock)],
            !._counts.run = @ + 1]

\* upd(succ): the finalization
Upd(s, succ, clock) ==
  [s EXCEPT !._running = FALSE,
            !._last = [succ |-> Bool(succ), date |-> Num(clock)],
            !._counts.run = @ + 1,
            !._counts[IF succ THEN "succ" ELSE "err"] = @ + 1]

\* the fields upd() writes, in order
UpdTrace == <<"_running", "_last", "_counts">>

\* a _patch without the try/catch around each patch: the first patch that
\* throws ends the loop and the exception leaves _patch
PatchStopsAtThrow(s, body, thr, clock) ==
  IF ~IsNonEmptyArray(s.patches)
    THEN [self |-> s, emitted |-> <<>>, patched |-> <<>>, threw |-> FALSE,
          trace |-> <<>>]
    ELSE IF ~JsonParses(body)
      THEN [self |-> s, emitted |-> <<>>, patched |-> <<>>, threw |-> TRUE,
            trace |-> <<"parse", "throw">>]
      ELSE LET s1 == [s EXCEPT !.updated = Num(clock)]
               all == [i \in 1..Len(PatchNames(s)) |->
                         [name |-> s.patches.a[i], threw |-> thr[i]]]
               bad == {i \in 1..Len(all) : thr[i]}
               first == CHOOSE i \in bad : \A j \in bad : i <= j
           IN IF bad = {}
                THEN [self |-> s1,
                      emitted |-> <<Captured(s1)>>,
                      patched |-> all,
                      threw |-> FALSE,
                      trace |-> <<"parse">>
                                  \o [i \in 1..Len(all) |-> "patch"]
                                  \o <<"updated", "change">>]
                ELSE [self |-> s, emitted |-> <<>>,
                      patched |-> SubSeq(all, 1, first),
                      threw |-> TRUE,
                      trace |-> <<"parse">>
                                  \o [i \in 1..first |-> "patch"]
                                  \o <<"throw">>]

\* Task.prototype._patch: nothing without patches; JSON.parse may throw; each
\* patch is attempted inside try/catch (thr[i]: patch i threw); then updated
\* is bumped and 'change' emitted.  The patch plugins are external: they are
\* taken to leave the serialized fields alone.
Patch(s, body, thr, clock) ==
  IF ~IsNonEmptyArray(s.patches)
    THEN [self |-> s, emitted |-> <<>>, patched |-> <<>>, threw |-> FALSE,
          trace |-> <<>>]
    ELSE IF ~JsonParses(body)
      THEN [self |-> s, emitted |-> <<>>, patched |-> <<>>, threw |-> TRUE,
            trace |-> <<"parse", "throw">>]
      ELSE LET s1 == [s EXCEPT !.updated = Num(clock)]
           IN [self |-> s1,
               emitted |-> <<Captured(s1)>>,
               patched |-> [i \in 1..Len(PatchNames(s)) |->
                              [name |-> s.patches.a[i], threw |-> thr[i]]],
               threw |-> FALSE,
               trace |-> <<"parse">>
                           \o [i \in 1..Len(PatchNames(s)) |-> "patch"]
                           \o <<"updated", "change">>]

\* a succ that finalizes before it notifies
SuccFinalizesFirst(s, body, hash, thr, clock) ==
  LET s1 == Upd([s EXCEPT !.hash = Str(hash), !.updated = Num(clock)],
                TRUE, clock)
      p == Patch(s1, body, thr, clock)
  IN IF p.threw
       THEN [self |-> p.self, emitted |-> <<Captured(s1)>>, patched |-> <<>>,
             sent |-> <<>>, branch |-> "abort",
             trace |-> <<"hash", "updated">> \o UpdTrace \o <<"change">>
                         \o p.trace]
       ELSE [self |-> p.self,
             emitted |-> <<Captured(s1)>> \o p.emitted, patched |-> p.patched,
             sent |-> <<>>, branch |-> "succ",
             trace |-> <<"hash", "updated">> \o UpdTrace \o <<"change">>
                         \o p.trace]

\* a succ that clears _running when _patch throws
SuccClearsRunning(s, body, hash, thr, clock) ==
  LET s1 == [s EXCEPT !.hash = Str(hash), !.updated = Num(clock)]
      p == Patch(s1, body, thr, clock)
  IN IF p.threw
       THEN [self |-> [p.self EXCEPT !._running = FALSE],
             emitted |-> <<Captured(s1)>>, patched |-> <<>>,
             sent |-> <<>>, branch |-> "abort",
             trace |-> <<"hash", "updated", "change">> \o p.trace
                         \o <<"_running">>]
       ELSE [self |-> Upd(p.self, TRUE, clock),
             emitted |-> <<Captured(s1)>> \o p.emitted, patched |-> p.patched,
             sent |-> <<>>, branch |-> "succ",
             trace |-> <<"hash", "updated", "change">> \o p.trace \o UpdTrace]

\* a succ that calls _patch before it stores the hash
SuccPatchesFirst(s, body, hash, thr, clock) ==
  LET p == Patch(s, body, thr, clock)
      s1 == [p.self EXCEPT !.hash = Str(hash), !.updated = Num(clock)]
  IN IF p.threw
       THEN [self |-> p.self, emitted |-> <<>>, patched |-> <<>>,
             sent |-> <<>>, branch |-> "abort", trace |-> p.trace]
       ELSE [self |-> Upd(s1, TRUE, clock),
             emitted |-> p.emitted \o <<Captured(s1)>>, patched |-> p.patched,
             sent |-> <<>>, branch |-> "succ",
             trace |-> p.trace \o <<"hash", "updated", "change">> \o UpdTrace]

\* succ(headers, body, hash): hash, updated, emit, _patch, upd(true); an
\* exception out of _patch leaves before upd
Succ(s, body, hash, thr, clock) ==
  LET s1 == [s EXCEPT !.hash = Str(hash), !.updated = Num(clock)]
      p == Patch(s1, body, thr, clock)
  IN IF p.threw
       THEN [self |-> p.self, emitted |-> <<Captured(s1)>>, patched |-> <<>>,
             sent |-> <<>>, branch |-> "abort",
             trace |-> <<"hash", "updated", "change">> \o p.trace]
       ELSE [self |-> Upd(p.self, TRUE, clock),
             emitted |-> <<Captured(s1)>> \o p.emitted, patched |-> p.patched,
             sent |-> <<>>, branch |-> "succ",
             trace |-> <<"hash", "updated", "change">> \o p.trace \o UpdTrace]

\* rerr()
Rerr(s, clock) ==
  [self |-> Upd(s, FALSE, clock), emitted |-> <<>>, patched |-> <<>>,
   sent |-> <<>>, branch |-> "rerr", trace |-> UpdTrace]

\* nochange()
NoChange(s, clock) ==
  [self |-> Upd(s, TRUE, clock), emitted |-> <<>>, patched |-> <<>>,
   sent |-> <<>>, branch |-> "nochange", trace |-> UpdTrace]

\* the callback POST: body, the date and content-type headers, the timeout;
\* with what its completion closes over (body, hash, run()'s cb)
Callbk(s, req, resp, hash) ==
  [method |-> "POST", url |-> s.callback, timeout |-> Rsrc(s).timeout,
   headers |-> Headers(resp), body |-> resp.body, hash |-> hash, cb |-> req.cb]

\* the completion of run()'s GET
OnFetch(s, req, resp, thr, clock) ==
  IF resp.err \/ resp.status # 200
    THEN Rerr(s, clock)
    ELSE LET hash == makeHash(Headers(resp), resp.body)
         IN IF Unchanged(s, hash)
              THEN NoChange(s, clock)
              ELSE IF ~Truthy(s.callback)
                THEN Succ(s, resp.body, hash, thr, clock)
                ELSE [self |-> s, emitted |-> <<>>, patched |-> <<>>,
                      sent |-> <<Callbk(s, req, resp, hash)>>, branch |-> "post",
                      trace |-> <<>>]

\* a completion that looks at err only, not at the status
OnCallbackAnyStatus(s, req, resp, thr, clock) ==
  IF resp.err
    THEN Rerr(s, clock)
    ELSE Succ(s, req.body, req.hash, thr, clock)

\* the completion of the callback POST
OnCallback(s, req, resp, thr, clock) ==
  IF resp.err \/ resp.status # 200
    THEN Rerr(s, clock)
    ELSE Succ(s, req.body, req.hash, thr, clock)

\* the GET run() issues, with the cb it was given
Fetch(s, cb) ==
  [method |-> "GET", url |-> Rsrc(s).url, timeout |-> Rsrc(s).timeout,
   headers |-> Headers([ct |-> Undef]), body |-> Undef, hash |-> "", cb |-> cb]

\* Task.prototype.run(cb) on entity s: rejected while busy, else _running and the GET
RunCall(s, cb, opname) ==
  IF ~Busy(s)
    THEN /\ s._counts.run + Len(net) < MaxRuns
         /\ self' = [s EXCEPT !._running = TRUE]
         /\ net' = Append(net, Fetch(s, cb))
         /\ obs' = [Quiet EXCEPT !.op = opname \o ".started", !.ret = "undefined",
                                 !.sent = <<"GET">>, !.cb = cb,
                                 !.trace = <<"_running">>]
    ELSE /\ self' = s
         /\ net' = net
         /\ obs' = [Quiet EXCEPT !.op = opname \o ".rejected", !.ret = "false",
                                 !.cb = cb]

\* a manual run(), without cb
Run ==
  /\ RunCall(self, "none", "run")
  /\ UNCHANGED <<probes, now, undelivered>>

\* the timer fires: a recurring CronJob whenever it is running, a one-shot one
\* when its date is reached, after which it is no longer running; the fire
\* callback calls self.run(function () { if (once) self.stop(); })
Fire ==
  /\ self._cronJob.bound
  /\ self._cronJob.running
  /\ self._cronJob.once => now >= self.cron.n
  /\ RunCall(IF self._cronJob.once
               THEN [self EXCEPT !._cronJob.running = FALSE] ELSE self,
             IF self._cronJob.once THEN "once" ELSE "recurring", "fire")
  /\ UNCHANGED <<probes, now, undelivered>>

\* which patches throw, for a completion that reaches the patch loop (the
\* choice is immaterial for any other)
PatchThrows(s, ok, body) ==
  IF ok /\ IsNonEmptyArray(s.patches) /\ JsonParses(body)
    THEN [1..Len(PatchNames(s)) -> BOOLEAN]
    ELSE {[i \in 1..Len(PatchNames(s)) |-> FALSE]}

\* the GET of run() in flight at place i completes with resp
FetchStep(i, resp, thr) ==
  /\ net[i].method = "GET"
  /\ LET r == OnFetch(self, net[i], resp, thr, now)
     IN /\ net' = Remove(net, i) \o r.sent
        /\ self' = r.self
        /\ undelivered' = IF r.branch = "post" THEN undelivered ELSE ""
        /\ obs' = [Quiet EXCEPT !.op = "fetch." \o r.branch,
                                !.emitted = r.emitted, !.patched = r.patched,
                                !.sent = [k \in 1..Len(r.sent) |-> "POST"],
                                !.cb = net[i].cb, !.trace = r.trace]
  /\ UNCHANGED <<probes, now>>

\* the callback POST in flight at place i completes with resp
CallbackStep(i, resp, thr) ==
  /\ net[i].method = "POST"
  /\ LET r == OnCallback(self, net[i], resp, thr, now)
     IN /\ net' = Remove(net, i) \o r.sent
        /\ self' = r.self
        /\ undelivered' = IF r.branch = "rerr" THEN net[i].hash ELSE ""
        /\ obs' = [Quiet EXCEPT !.op = "callback." \o r.branch,
                                !.emitted = r.emitted, !.patched = r.patched,
                                !.cb = net[i].cb, !.trace = r.trace]
  /\ UNCHANGED <<probes, now>>

FetchDone ==
  \E i \in 1..Len(net), resp \in Responses :
  \E thr \in PatchThrows(self, resp.status = 200, resp.body) :
    FetchStep(i, resp, thr)

CallbackDone ==
  \E i \in 1..Len(net), resp \in CallbackResponses :
  \E thr \in PatchThrows(self, resp.status = 200, net[i].body) :
    CallbackStep(i, resp, thr)

\* ------------------------------------------------------------ specification

Next ==
  \/ Active
  \/ Stop
  \/ Expire
  \/ Sched
  \/ Test
  \/ ProbeDone
  \/ Run
  \/ Fire
  \/ FetchDone
  \/ CallbackDone
  \/ Tick

Spec == Init /\ [][Next]_vars

\* ------------------------------------------------- construction on its own

\* the arguments the constructor is applied to: cron absent, numeric on both
\* sides of the limit, or a string; expireAt likewise; name present or not
CtorInputs ==
  {[Config(Undef, Undef, cr) EXCEPT !.name = nm, !.expireAt = ex] :
     cr \in {Undef, Num(-1), Num(0), Num(30), Num(RelativeLimit - 1),
             Num(RelativeLimit), Num(RelativeLimit + 1), Num(StartTime),
             Str("* * * * * *"), Str("5")},
     ex \in {Undef, Num(0), Num(5), Num(RelativeLimit), Str("5")},
     nm \in {Undef, Str("t1")}}

\* what _Now() reads at construction: a clock below the limit, and a clock that
\* is set
CtorClocks == {1000, StartTime, StartTime + MaxTick}

\* new Task(task): throws, or yields the entity
Construct(task) ==
  /\ IF ConstructorThrows(task)
       THEN /\ self' = self
            /\ obs' = [Quiet EXCEPT !.op = "new.throws"]
       ELSE /\ self' = Task(task, now)
            /\ obs' = [Quiet EXCEPT !.op = "new"]
  /\ UNCHANGED <<net, probes, now, undelivered>>

New == \E task \in CtorInputs : Construct(task)

CtorInit ==
  /\ now \in CtorClocks
  /\ self = Task(Config(Undef, Undef, Undef), now)
  /\ net = <<>>
  /\ probes = <<>>
  /\ undelivered = ""
  /\ obs = Quiet

CtorSpec == CtorInit /\ [][New]_vars

\* ------------------------------------------------------------------ claims

\* the finalization upd() of a started run, as a step: _running cleared,
\* _last = {succ, date: now}, _counts.run and one of succ / err up by one
Finalizes ==
  /\ self._running
  /\ ~self'._running
  /\ self'._last.date = Num(now)
  /\ self'._counts.run = self._counts.run + 1
  /\ \/ /\ self'._last.succ = Bool(TRUE)
        /\ self'._counts.succ = self._counts.succ + 1
        /\ self'._counts.err = self._counts.err
     \/ /\ self'._last.succ = Bool(FALSE)
        /\ self'._counts.err = self._counts.err + 1
        /\ self'._counts.succ = self._counts.succ

\* C1: single-flight.  At most one request of the run pipeline is in flight,
\* and only while _running; a run() issued while _running, by the timer or
\* manually, returns false, issues no request, and leaves _counts, _last and
\* the requests in flight as they are.
C1_SingleFlight ==
  /\ [](Len(net) <= 1 /\ (Len(net) = 1 => self._running))
  /\ [][(self._running /\ (Run \/ Fire))
          => /\ obs'.ret = "false"
             /\ obs'.sent = <<>>
             /\ net' = net
             /\ self'._running
             /\ self'._counts = self._counts
             /\ self'._last = self._last]_vars

\* a manual run() was rejected while the callback POST of the run in flight
\* was pending
C1_Witness ==
  /\ obs.op = "run.rejected"
  /\ Len(net) = 1
  /\ net[1].method = "POST"

\* C2: every started run is finalized exactly once, after its fetch / callback
\* / patch sequence: the step that ends the sequence (the last request of the
\* run is answered and none is issued) is the finalization, and _running,
\* _counts and _last change in no other step than a run's start.
C2_FinalizedExactlyOnce ==
  [][/\ Len(net') < Len(net) => Finalizes
     /\ (self'._counts # self._counts \/ self'._last # self._last
           \/ (self._running /\ ~self'._running))
          => (Len(net') < Len(net) /\ Finalizes)]_vars

\* the steps that finalize a run
FinalOps ==
  {"fetch.rerr", "fetch.nochange", "fetch.succ", "callback.rerr", "callback.succ"}

\* C3: a one-shot entity whose timer fired: once the run the timer started
\* has completed, in any outcome, state is STOPPED.
C3_OneShotStopsAfterRun ==
  (obs.cb = "once" /\ obs.op \in FinalOps) => self.state = Num(STOPPED)

\* which patches throw: any choice
AnyThrows == [1..Len(PatchNames(self)) -> BOOLEAN]

\* C4: a run whose GET answers 200 with content that hashes to the stored hash
\* leaves hash and updated as they are and emits no 'change', and counts as a
\* run and a success, with _last.succ true.
C4_NoChangeRun ==
  [][\A i \in 1..Len(net), resp \in Responses, thr \in AnyThrows :
       (/\ ~resp.err
        /\ resp.status = 200
        /\ self.hash = Str(makeHash(Headers(resp), resp.body))
        /\ FetchStep(i, resp, thr))
       => /\ self'.hash = self.hash
          /\ self'.updated = self.updated
          /\ obs'.emitted = <<>>
          /\ self'._counts = [self._counts EXCEPT !.run = @ + 1, !.succ = @ + 1]
          /\ self'._last.succ = Bool(TRUE)]_vars

\* a run found the content unchanged, a second after the hash was stored
C4_Witness ==
  /\ obs.op = "fetch.nochange"
  /\ self.hash # Undef
  /\ self.updated.n < now
  /\ self._counts.succ = 2

\* C5: without a callback, a run whose GET answers 200 with content that
\* hashes to something else than the stored hash stores the new hash, counts a
\* success, and emits one 'change' without patches and two with patches,
\* whatever the body.
C5_ChangeWithoutCallback ==
  [][\A i \in 1..Len(net), resp \in Responses, thr \in AnyThrows :
       (/\ ~resp.err
        /\ resp.status = 200
        /\ self.hash # Str(makeHash(Headers(resp), resp.body))
        /\ ~Truthy(self.callback)
        /\ FetchStep(i, resp, thr))
       => /\ self'.hash = Str(makeHash(Headers(resp), resp.body))
          /\ self'._counts.succ = self._counts.succ + 1
          /\ Len(obs'.emitted) = IF IsNonEmptyArray(self.patches) THEN 2 ELSE 1]_vars

\* C6: a callback POST that fails (transport error or non-200) leaves hash and
\* updated as they are, emits nothing, applies no patch and counts an error;
\* and the GET of the next run, when it answers content with the hash of the
\* undelivered one, issues the callback POST again, for that content.
C6_CallbackFailureIsRetried ==
  [][/\ \A i \in 1..Len(net), resp \in CallbackResponses, thr \in AnyThrows :
          ((resp.err \/ resp.status # 200) /\ CallbackStep(i, resp, thr))
          => /\ self'.hash = self.hash
             /\ self'.hash # Str(net[i].hash)
             /\ self'.updated = self.updated
             /\ obs'.emitted = <<>>
             /\ obs'.patched = <<>>
             /\ self'._counts = [self._counts EXCEPT !.run = @ + 1, !.err = @ + 1]
             /\ undelivered' = net[i].hash
     /\ \A i \in 1..Len(net), resp \in Responses, thr \in AnyThrows :
          (/\ ~resp.err
           /\ resp.status = 200
           /\ makeHash(Headers(resp), resp.body) = undelivered
           /\ FetchStep(i, resp, thr))
          => /\ obs'.sent = <<"POST">>
             /\ Len(net') = 1
             /\ net'[1].method = "POST"
             /\ net'[1].url = self.callback
             /\ net'[1].body = resp.body
             /\ net'[1].hash = undelivered
             /\ self'.hash = self.hash]_vars

\* the run after a failed delivery fetched content with the same hash and
\* issued the callback POST again
C6_Witness ==
  /\ obs.op = "fetch.post"
  /\ undelivered # ""
  /\ Len(net) = 1
  /\ net[1].hash = undelivered
  /\ self._counts.err = 1
  /\ self._last.succ = Bool(FALSE)

\* C7: state is ACTIVE, STOPPED or EXPIRED; active() while ACTIVE, stop() while
\* STOPPED and expire() while EXPIRED change no field of the entity (state,
\* updated, the timer's running flag) and emit nothing.
C7_IdempotentTransitions ==
  /\ [](self.state \in {Num(ACTIVE), Num(STOPPED), Num(EXPIRED)})
  /\ [][(\/ self.state = Num(ACTIVE) /\ Active
         \/ self.state = Num(STOPPED) /\ Stop
         \/ self.state = Num(EXPIRED) /\ Expire)
        => (self' = self /\ obs'.emitted = <<>>)]_vars

\* stop() was called on a STOPPED entity with a bound timer, a second after
\* updated was last written
C7_Witness ==
  /\ obs.op = "stop.noop"
  /\ self.state = Num(STOPPED)
  /\ self._cronJob.bound
  /\ self.updated.n < now

\* the fields of the serialized form that are configuration or content
PersistedKeys ==
  {"name", "state", "url", "callback", "timeout", "hash",
   "urlTemplate", "callbackTemplate", "patches",
   "cron", "expireAt", "created", "updated"}

\* the reconstructions of the entity from its serialized form, now or later
Reconstructions ==
  {Task(toJSON(self), clock) : clock \in now..(StartTime + MaxTick)}

\* C8, as stated: every serialized field but _running is the same in the
\* reconstructed entity, _counts and _last included.
C8_RoundTripAll ==
  \A r \in Reconstructions :
    /\ \A k \in PersistedKeys \cup {"_counts", "_last"} : r[k] = self[k]
    /\ ~r._running

\* C8, amended: new Task(toJSON()) has the original's name, state, url,
\* callback, timeout, hash, urlTemplate, callbackTemplate, patches, cron,
\* expireAt, created and updated; _running, _counts and _last are reset to
\* false, zeros and nulls whatever the original's were.
C8_RoundTrip ==
  \A r \in Reconstructions :
    /\ \A k \in PersistedKeys : r[k] = self[k]
    /\ ~r._running
    /\ r._counts = [run |-> 0, err |-> 0, succ |-> 0]
    /\ r._last = [succ |-> Null, date |-> Null]

\* an entity that has completed a run with a change, is EXPIRED and is
\* running again, a second after its construction
C8_Witness ==
  /\ self._counts.succ > 0
  /\ self.hash # Undef
  /\ self.state = Num(EXPIRED)
  /\ self._running
  /\ self.created.n < now

\* C9: from an EXPIRED entity no step, of any call, leaves the bound timer
\* running or starts a timer-fired run.
C9_ExpiredHaltsScheduling ==
  [][self.state = Num(EXPIRED)
       => (~self'._cronJob.running /\ obs'.op # "fire.started")]_vars

\* C10: test() and the completion of its request write no field of the
\* entity, disturb no request of a run in flight and emit nothing.
C10_ProbeReadOnly ==
  [][(Test \/ ProbeDone)
       => (self' = self /\ net' = net /\ obs'.emitted = <<>>)]_vars

\* a probe completed with `modified` while a run's callback POST was in flight
C10_Witness ==
  /\ obs.op = "test.done"
  /\ obs.probe[1].modified
  /\ self._running
  /\ Len(net) = 1
  /\ net[1].method = "POST"

\* the answers with status 200
OkResponses == {r \in Responses : ~r.err /\ r.status = 200}

\* C11: the prober and the run pipeline agree.  In every state and for every
\* 200 response, test() reports modified = false exactly when the GET
\* completion of a run takes the no-change branch; and when a probe has just
\* reported modified = false, a run's GET answered with the same content-type
\* and body finalizes as no-change: _last.succ true, hash kept, nothing
\* emitted.
C11_ProberAgreesWithRun ==
  /\ [](\A resp \in OkResponses, thr \in AnyThrows :
          (~TestDone(self, resp).probe[1].modified)
            <=> (OnFetch(self, Fetch(self, "none"), resp, thr, now).branch
                   = "nochange"))
  /\ [][\A i \in 1..Len(net), resp \in OkResponses, thr \in AnyThrows :
          (/\ obs.op = "test.done"
           /\ obs.probe[1].err = "null"
           /\ ~obs.probe[1].modified
           /\ obs.probe[1].headers = Headers(resp)
           /\ obs.probe[1].body = resp.body
           /\ FetchStep(i, resp, thr))
          => /\ Finalizes
             /\ self'._last.succ = Bool(TRUE)
             /\ self'.hash = self.hash
             /\ obs'.emitted = <<>>]_vars

\* a probe reported modified = false while the GET of a run was in flight
C11_Witness ==
  /\ obs.op = "test.done"
  /\ obs.probe[1].err = "null"
  /\ ~obs.probe[1].modified
  /\ Len(net) = 1
  /\ net[1].method = "GET"

\* the places of a trace that hold event e
Places(tr, e) == {k \in 1..Len(tr) : tr[k] = e}

\* the steps that are said not to notify: a rejected run, a no-change run,
\* a failed run, test() and its completion, sched(), and the no-op calls
SilentOps ==
  {"run.rejected", "fire.rejected", "fetch.nochange", "fetch.rerr",
   "callback.rerr", "fetch.post", "test", "test.done", "sched", "tick",
   "active.noop", "stop.noop", "expire.noop", "run.started", "fire.started"}

\* C12: 'change' is emitted exactly when updated is written.  In every step,
\* each write of updated is immediately followed by one 'change' and each
\* 'change' immediately follows a write of updated; the listener sees the
\* value just written; the steps said not to notify write no updated and emit
\* nothing; and updated keeps its value in a step that does not write it.
C12_ChangeIffUpdatedWritten ==
  /\ [](/\ \A k \in Places(obs.trace, "updated") :
             k < Len(obs.trace) /\ obs.trace[k + 1] = "change"
        /\ \A k \in Places(obs.trace, "change") :
             k > 1 /\ obs.trace[k - 1] = "updated"
        /\ Len(obs.emitted) = Cardinality(Places(obs.trace, "change"))
        /\ \A k \in 1..Len(obs.emitted) : obs.emitted[k].updated = Num(now)
        /\ obs.op \in SilentOps
             => (obs.emitted = <<>> /\ Places(obs.trace, "updated") = {}))
  /\ [][/\ Places(obs'.trace, "updated") = {} => self'.updated = self.updated
        /\ Places(obs'.trace, "updated") # {} => self'.updated = Num(now)]_vars

\* a run on an entity with patches stored new content: two writes of updated,
\* two notifications
C12_Witness ==
  /\ obs.op = "fetch.succ"
  /\ Len(obs.emitted) = 2
  /\ Cardinality(Places(obs.trace, "updated")) = 2

\* C13: construction normalizes cron.  A numeric cron below 1,000,000 is
\* stored as the construction time plus the given value; a numeric cron of
\* 1,000,000 or more, and a string cron, are stored as given.
C13_CronNormalized ==
  [][\A task \in CtorInputs :
       (Construct(task) /\ ~ConstructorThrows(task))
       => /\ (task.cron.t = "number" /\ task.cron.n < 1000000)
               => self'.cron = Num(now + task.cron.n)
          /\ (task.cron.t = "number" /\ task.cron.n >= 1000000)
               => self'.cron = task.cron
          /\ task.cron.t = "string" => self'.cron = task.cron]_vars

\* an entity was constructed with cron 999,999, the largest offset
C13_Witness ==
  /\ obs.op = "new"
  /\ self.cron = Num(now + 999999)

\* C14: stop() and expire() do not cancel a run in flight.  The call leaves
\* the pending request, _running, hash, _counts and _last alone and stops the
\* timer; in state STOPPED or EXPIRED the completions are processed as they
\* are in state ACTIVE (the same writes, notifications and patches), the step
\* that ends the run is its finalization, and the timer starts no run.
C14_StopDoesNotCancel ==
  [][/\ (self._running /\ (Stop \/ Expire))
          => /\ net' = net
             /\ self'._running
             /\ self'.hash = self.hash
             /\ self'._counts = self._counts
             /\ self'._last = self._last
             /\ ~self'._cronJob.running
     /\ \A i \in 1..Len(net), resp \in Responses, thr \in AnyThrows :
          (self.state # Num(ACTIVE) /\ FetchStep(i, resp, thr))
          => LET r == OnFetch([self EXCEPT !.state = Num(ACTIVE)],
                              net[i], resp, thr, now)
             IN /\ self' = [r.self EXCEPT !.state = self.state]
                /\ obs'.trace = r.trace
                /\ obs'.patched = r.patched
     /\ \A i \in 1..Len(net), resp \in CallbackResponses, thr \in AnyThrows :
          (self.state # Num(ACTIVE) /\ CallbackStep(i, resp, thr))
          => LET r == OnCallback([self EXCEPT !.state = Num(ACTIVE)],
                                 net[i], resp, thr, now)
             IN /\ self' = [r.self EXCEPT !.state = self.state]
                /\ obs'.trace = r.trace
                /\ obs'.patched = r.patched
     /\ (self.state # Num(ACTIVE) /\ Len(net') < Len(net)) => Finalizes
     /\ self.state # Num(ACTIVE) => ~Fire]_vars

\* every patch of the list was attempted once, in list order, patch k having
\* thrown or not as thr[k] says, and no exception left _patch
PatchedAll(thr) ==
  /\ obs'.patched = [k \in 1..Len(self.patches.a) |->
                       [name |-> self.patches.a[k], threw |-> thr[k]]]
  /\ Cardinality(Places(obs'.trace, "patch")) = Len(self.patches.a)
  /\ Places(obs'.trace, "throw") = {}

\* C15: patch isolation.  When _patch runs with a body that parses and a
\* non-empty patches list (after a changed GET without callback, or after a
\* callback answered 200), every patch is attempted exactly once, in list
\* order, whichever of them throw, and the run finalizes as a success.
C15_PatchIsolation ==
  [][/\ \A i \in 1..Len(net), resp \in OkResponses, thr \in AnyThrows :
          (/\ IsNonEmptyArray(self.patches)
           /\ JsonParses(resp.body)
           /\ ~Truthy(self.callback)
           /\ self.hash # Str(makeHash(Headers(resp), resp.body))
           /\ FetchStep(i, resp, thr))
          => (PatchedAll(thr) /\ Finalizes /\ self'._last.succ = Bool(TRUE))
     /\ \A i \in 1..Len(net), resp \in CallbackResponses, thr \in AnyThrows :
          (/\ IsNonEmptyArray(self.patches)
           /\ ~resp.err
           /\ resp.status = 200
           /\ JsonParses(net[i].body)
           /\ CallbackStep(i, resp, thr))
          => (PatchedAll(thr) /\ Finalizes /\ self'._last.succ = Bool(TRUE))]_vars

\* after a callback answered 200, the first patch threw and the second was
\* attempted all the same
C15_Witness ==
  /\ obs.op = "callback.succ"
  /\ Len(obs.patched) = 2
  /\ obs.patched[1].threw
  /\ obs.patched[2].name = "q"
  /\ self._last.succ = Bool(TRUE)

\* the parse failure came after the side effects of the success path and was
\* not handled: hash and updated are stored, one 'change' was emitted, no
\* patch was attempted, nothing follows the throw
AbortedAfterStore(hash) ==
  /\ self'.hash = Str(hash)
  /\ self'.updated = Num(now)
  /\ Len(obs'.emitted) = 1
  /\ obs'.emitted[1].hash = Str(hash)
  /\ obs'.emitted[1].updated = Num(now)
  /\ obs'.patched = <<>>
  /\ obs'.trace = <<"hash", "updated", "change", "parse", "throw">>

\* C16: malformed content.  On an entity with a non-empty patches list, a run
\* that found a changed hash (and whose callback, if any, answered 200) with
\* a body that is not JSON has stored the new hash and updated and emitted
\* one 'change' when the parse fails; no patch is invoked and the second
\* write of updated and the second 'change' do not happen.
C16_MalformedContent ==
  [][/\ \A i \in 1..Len(net), resp \in OkResponses, thr \in AnyThrows :
          (/\ IsNonEmptyArray(self.patches)
           /\ ~JsonParses(resp.body)
           /\ ~Truthy(self.callback)
           /\ self.hash # Str(makeHash(Headers(resp), resp.body))
           /\ FetchStep(i, resp, thr))
          => AbortedAfterStore(makeHash(Headers(resp), resp.body))
     /\ \A i \in 1..Len(net), resp \in CallbackResponses, thr \in AnyThrows :
          (/\ IsNonEmptyArray(self.patches)
           /\ ~resp.err
           /\ resp.status = 200
           /\ ~JsonParses(net[i].body)
           /\ CallbackStep(i, resp, thr))
          => AbortedAfterStore(net[i].hash)]_vars

\* the callback answered 200 for a body that is not JSON, on an entity with
\* patches
C16_Witness ==
  /\ obs.op = "callback.abort"
  /\ self.hash = Str("sha256:x{}")
  /\ Len(obs.emitted) = 1
  /\ obs.patched = <<>>

\* the steps in which JSON.parse threw
AbortOps == {"fetch.abort", "callback.abort"}

\* a run is marked as in flight and no request of it is pending
Stuck == self._running /\ net = <<>>

\* C17: a run that aborts in the patch phase is never finalized.  The abort
\* leaves _running set with no request pending and counts the run neither as
\* a success nor as an error; from such a state no step clears _running, no
\* step changes _counts or _last, no request of a run is issued, and every
\* run(), manual or by the timer, returns false.
C17_AbortedRunBlocksForever ==
  /\ [][obs'.op \in AbortOps
          => (Stuck' /\ self'._counts = self._counts
                     /\ self'._last = self._last)]_vars
  /\ [][Stuck
          => /\ Stuck'
             /\ self'._counts = self._counts
             /\ self'._last = self._last
             /\ (Run \/ Fire) => (obs'.ret = "false" /\ obs'.sent = <<>>)]_vars

\* the timer fired after a run had aborted, and its run() was rejected
C17_Witness ==
  /\ obs.op = "fire.rejected"
  /\ Stuck
  /\ self.hash = Str("sha256:x{}")

\* C18: timer / state coupling.  A bound timer that is running implies state
\* ACTIVE; a bound recurring timer (string cron) is running exactly when
\* state is ACTIVE.
C18_TimerStateCoupling ==
  /\ (self._cronJob.bound /\ self._cronJob.running) => self.state = Num(ACTIVE)
  /\ (self._cronJob.bound /\ ~self._cronJob.once)
       => (self._cronJob.running <=> self.state = Num(ACTIVE))

\* sched() was called on an EXPIRED entity with a string cron: a recurring
\* timer is bound and not started
C18_Witness ==
  /\ obs.op = "sched"
  /\ self.state = Num(EXPIRED)
  /\ self._cronJob.bound
  /\ ~self._cronJob.once
  /\ ~self._cronJob.running

\* C19: counter consistency.  In every state _counts.run is _counts.succ +
\* _counts.err and _last.succ is null exactly when _counts.run is 0; no step
\* decreases a counter and no step changes _counts.run by more than one.
C19_CounterConsistency ==
  /\ [](/\ self._counts.run = self._counts.succ + self._counts.err
        /\ (self._last.succ = Null) <=> (self._counts.run = 0))
  /\ [][/\ self'._counts.run >= self._counts.run
        /\ self'._counts.succ >= self._counts.succ
        /\ self'._counts.err >= self._counts.err
        /\ self'._counts.run <= self._counts.run + 1]_vars

\* two runs were finalized, one as an error and one as a success
C19_Witness ==
  /\ obs.op \in FinalOps
  /\ self._counts = [run |-> 2, err |-> 1, succ |-> 1]
  /\ self._last.succ # Null

\* the completions of a run's requests
CompletionOps ==
  {"fetch.rerr", "fetch.nochange", "fetch.succ", "fetch.abort", "fetch.post",
   "callback.rerr", "callback.succ", "callback.abort"}

\* C20: notification before finalization.  Every 'change' a run emits comes
\* before the writes of upd() in the step; what a listener serializes at that
\* moment has _running true, so that a run() called from the listener is
\* rejected, and has the _counts and _last of before the step; a step that
\* only finalizes emits nothing.
C20_NotifyBeforeFinalize ==
  /\ [](obs.op \in CompletionOps
          => /\ \A c \in Places(obs.trace, "change"),
                   u \in Places(obs.trace, "_running") : c < u
             /\ \A k \in 1..Len(obs.emitted) :
                  obs.emitted[k]._running /\ Busy(obs.emitted[k])
             /\ obs.op \in {"fetch.rerr", "fetch.nochange", "callback.rerr"}
                  => obs.emitted = <<>>)
  /\ [][obs'.op \in CompletionOps
          => \A k \in 1..Len(obs'.emitted) :
               /\ obs'.emitted[k]._counts = self._counts
               /\ obs'.emitted[k]._last = self._last]_vars

\* a run stored new content and was finalized: both notifications were taken
\* with _running true and without the run in _counts
C20_Witness ==
  /\ obs.op = "fetch.succ"
  /\ Len(obs.emitted) = 2
  /\ obs.emitted[2]._running
  /\ ~self._running
  /\ self._counts.run = obs.emitted[2]._counts.run + 1

====
